---- MODULE Spec2Model ----
(***************************************************************************)
(* Model of the FCR receipt extractor (src/Project.py): per-page text      *)
(* extraction with OCR fallback, identifier matching, the page-range       *)
(* segmenter find_fcr_ranges, the splitter, the archive builder and the    *)
(* control flow of main with its temporary directory.                      *)
(*                                                                         *)
(* Texts are sequences of tokens: a token is one character, or one of the  *)
(* three labels the patterns look for.  Identifiers, file names and paths  *)
(* are sequences of tokens too.  Page indices are zero-based as in the     *)
(* source; page i of the document is element i+1 of a TLA+ sequence.       *)
(***************************************************************************)
EXTENDS Integers, Sequences, FiniteSets, TLC

\* Largest number of pages of an uploaded document.
MaxPages == 4

\* Python's None for found_fcr / current_fcr, and the falsy result of
\* page.extract_text(): a capture group of the patterns is never empty, so
\* the empty sequence is free to stand for "no identifier".
None == <<>>

\* Label tokens: a whole label as the regular expressions accept it.
RECEIPT_NO == "RECEIPT NO"
FCR_NO == "FCR NO"
ARABIC_NO == "ARABIC RECEIPT NO"

\* [A-Z0-9] under re.IGNORECASE
Alnum == {"A", "B", "1", "2", "3"}
\* \s
Whitespace == {" "}
\* [.:]
Separator == {".", ":"}
\* [\(\d+\)] : one character out of '(', a digit, '+', ')'
TrailClass == {"(", "1", "2", "3", "+", ")"}

\* The page texts the extractor and the recognizer can hand back.  A label
\* never follows a letter or digit directly (the letters of the label would
\* then belong to the run of [A-Z0-9] before it).
Texts ==
  { <<>>,                                        \* empty string
    <<" ">>,                                     \* whitespace only
    <<"B", " ", "1">>,                           \* text, no label
    <<RECEIPT_NO, ":", " ", "A">>,               \* id A
    <<FCR_NO, " ", "A">>,                        \* id A by the 2nd pattern
    <<RECEIPT_NO, "B">>,                         \* id B
    <<ARABIC_NO, ":", " ", ":", "B">>,           \* id B by the 3rd pattern
    <<RECEIPT_NO, "A", "(", "1", ")">>,          \* id A(
    <<RECEIPT_NO, "A", ")">>,                    \* id A)
    <<FCR_NO, "A", "(">>,                        \* id A  (2nd pattern: no trail)
    <<FCR_NO, "1", " ", RECEIPT_NO, ".", "B">>,  \* 1st pattern wins: B
    <<RECEIPT_NO, " ", ":", "A", " ", FCR_NO, "B">>,   \* 1st fails, 2nd gives B
    <<"B", " ", RECEIPT_NO, "A", " ", RECEIPT_NO, "B">> \* first match: A
  }

RECURSIVE SkipWhile(_, _, _)
\* smallest index >= j whose token is outside S (Len(t)+1 when none):
\* the position after a greedy S* starting at j.
SkipWhile(t, j, S) ==
  IF j <= Len(t) /\ t[j] \in S THEN SkipWhile(t, j + 1, S) ELSE j

\* [.:]? at position j
SkipOptional(t, j, S) == IF j <= Len(t) /\ t[j] \in S THEN j + 1 ELSE j

\* ([A-Z0-9]+) at position j; None when the run is empty
AlnumRun(t, j) ==
  LET e == SkipWhile(t, j, Alnum) IN SubSeq(t, j, e - 1)

\* Capture of pattern k matched at position i (the label must be at i).
MatchAt(t, i, k) ==
  CASE k = 1 ->
         IF t[i] # RECEIPT_NO THEN None
         ELSE LET j == SkipWhile(t, SkipOptional(t, i + 1, Separator), Whitespace)
                  run == AlnumRun(t, j)
                  e == j + Len(run)
              IN IF run = None THEN None
                 ELSE IF e <= Len(t) /\ t[e] \in TrailClass
                      THEN Append(run, t[e]) ELSE run
    [] k = 2 ->
         IF t[i] # FCR_NO THEN None
         ELSE AlnumRun(t, SkipWhile(t, SkipOptional(t, i + 1, Separator), Whitespace))
    [] OTHER ->
         IF t[i] # ARABIC_NO THEN None
         ELSE AlnumRun(t, SkipWhile(t, i + 1, Whitespace \cup {":"}))

\* re.findall(pattern, text, re.IGNORECASE)[0], or None when there is no match
FirstMatch(t, k) ==
  LET hits == {i \in 1..Len(t) : MatchAt(t, i, k) # None}
  IN IF hits = {} THEN None
     ELSE MatchAt(t, CHOOSE i \in hits : \A h \in hits : i <= h, k)

\* The pattern loop without its break: the last matching pattern wins.
FindFcrLastPatternWins(t) ==
  IF FirstMatch(t, 3) # None THEN FirstMatch(t, 3)
  ELSE IF FirstMatch(t, 2) # None THEN FirstMatch(t, 2)
  ELSE FirstMatch(t, 1)

\* The pattern loop: the first pattern, in list order, that matches.
FindFcr(t) ==
  IF FirstMatch(t, 1) # None THEN FirstMatch(t, 1)
  ELSE IF FirstMatch(t, 2) # None THEN FirstMatch(t, 2)
  ELSE FirstMatch(t, 3)

\* text.strip() is empty
IsBlank(t) == \A i \in 1..Len(t) : t[i] \in Whitespace

\* os.path.join(temp_dir, name)
temp_dir == "temp_dir"
PathJoin(dir, name) == <<dir>> \o name
input_pdf_path == PathJoin(temp_dir, <<"input.pdf">>)
temp_pdf_path == PathJoin(temp_dir, <<"temp_page.pdf">>)
zip_path == PathJoin(temp_dir, <<"extracted_fcrs.zip">>)

\* The two messages main and the extractor send to st.error.
ExtractError == "Error extracting text"
NoFcrError == "No FCR numbers found in the document"

VARIABLES
  pc,            \* position of the run in main and the functions it calls
  total_pages,   \* len(reader.pages) of the uploaded document
  page_num,      \* loop variable of find_fcr_ranges
  text,          \* value returned by extract_text_from_page for page_num
  failed,        \* the except branch of extract_text_from_page ran for page_num
  current_fcr,   \* open identifier, None when none is open
  start_page,    \* start page of the open range
  fcr_ranges,    \* the dict: sequence of [fcr, start, end] in insertion order
  obs,           \* per processed page: what it yielded (history)
  errors,        \* messages sent to st.error, in order
  files,         \* file system: path -> content
  created,       \* every path the run has written so far (history)
  called,        \* which of the splitter / archive builder have run (history)
  output_files,  \* list returned by split_pdf_by_fcr_ranges
  exc,           \* the exception that left main unhandled, "" when none
  ext            \* what extract_text_from_page did for page_num (history)

vars == <<pc, total_pages, page_num, text, failed, current_fcr, start_page,
          fcr_ranges, obs, errors, files, created, called, output_files, exc,
          ext>>

segVars == <<current_fcr, start_page, fcr_ranges, obs>>

\* The empty function: a file system with no file.
NoFiles == [p \in {} |-> <<>>]

\* A write that leaves an existing file as it is.
WriteFileKeepsExisting(fs, path, content) == fs @@ (path :> content)

\* open(path, "wb") ... write: create or replace the file at path
WriteFile(fs, path, content) == (path :> content) @@ fs

\* A directory made without its removal on exit.
ExitTempDirKeeps(fs) == fs

\* tempfile.TemporaryDirectory().__exit__: everything under temp_dir is
\* removed, whether the block ends normally, by return or by an exception.
ExitTempDir(fs) ==
  [p \in {q \in DOMAIN fs : q[1] # temp_dir} |-> fs[p]]

\* Nothing done yet for the page: direct is the value of
\* page.extract_text(), fallback tells that the OCR branch was entered, ocr
\* that image_to_string returned, recognized what it returned.
NoExtraction ==
  [direct |-> <<>>, fallback |-> FALSE, ocr |-> FALSE, recognized |-> <<>>]

Init ==
  /\ pc = "main"
  /\ total_pages = 0
  /\ page_num = 0
  /\ text = <<>>
  /\ failed = FALSE
  /\ current_fcr = None
  /\ start_page = 0
  /\ fcr_ranges = <<>>
  /\ obs = <<>>
  /\ errors = <<>>
  /\ files = NoFiles
  /\ created = {}
  /\ called = {}
  /\ output_files = <<>>
  /\ exc = ""
  /\ ext = NoExtraction

\* An exception raised inside main's "with TemporaryDirectory()" block and
\* caught nowhere: the block is left (its directory removed) and the
\* exception leaves main.
Propagate(e) ==
  /\ pc' = "unhandled"
  /\ exc' = e
  /\ files' = ExitTempDir(files)

(***************************************************************************)
(* main, up to the call of find_fcr_ranges                                 *)
(***************************************************************************)

\* uploaded_file is None: main does nothing.
NoUpload ==
  /\ pc = "main"
  /\ pc' = "returned"
  /\ UNCHANGED <<ext, total_pages, page_num, text, failed, segVars, errors, files,
                 created, called, output_files, exc>>

\* A file with n pages is uploaded and saved as input.pdf in temp_dir.
Upload ==
  /\ pc = "main"
  /\ \E n \in 0..MaxPages :
       /\ total_pages' = n
       /\ files' = WriteFile(files, input_pdf_path, [i \in 1..n |-> i - 1])
  /\ created' = created \cup {input_pdf_path}
  /\ pc' = "open"
  /\ UNCHANGED <<ext, page_num, text, failed, segVars, errors, called,
                 output_files, exc>>

(***************************************************************************)
(* find_fcr_ranges                                                         *)
(***************************************************************************)

\* PdfReader(file) and len(reader.pages) succeed.
OpenPdf ==
  /\ pc = "open"
  /\ pc' = "loop"
  /\ page_num' = 0
  /\ UNCHANGED <<ext, total_pages, text, failed, segVars, errors, files, created,
                 called, output_files, exc>>

\* PdfReader(file) or len(reader.pages) raises on a corrupt document:
\* neither find_fcr_ranges nor main has a handler.
OpenPdfFails ==
  /\ pc = "open"
  /\ Propagate("PdfReadError")
  /\ UNCHANGED <<ext, total_pages, page_num, text, failed, segVars, errors,
                 created, called, output_files>>

\* for page_num in range(total_pages): page = reader.pages[page_num]
NextPage ==
  /\ pc = "loop"
  /\ page_num < total_pages
  /\ pc' = "extract"
  /\ failed' = FALSE
  /\ UNCHANGED <<ext, total_pages, page_num, text, segVars, errors, files, created,
                 called, output_files, exc>>

\* reader.pages[page_num] raises (damaged page tree): outside the try block
\* of extract_text_from_page, so nothing catches it.
PageReadFails ==
  /\ pc = "loop"
  /\ page_num < total_pages
  /\ Propagate("PdfReadError")
  /\ UNCHANGED <<ext, total_pages, page_num, text, failed, segVars, errors,
                 created, called, output_files>>

\* The loop is over: return fcr_ranges to main.
ReturnRanges ==
  /\ pc = "loop"
  /\ page_num = total_pages
  /\ pc' = "check"
  /\ UNCHANGED <<ext, total_pages, page_num, text, failed, segVars, errors, files,
                 created, called, output_files, exc>>

(***************************************************************************)
(* extract_text_from_page                                                  *)
(***************************************************************************)

\* An except branch that reports nothing and lets the exception go on.
ExceptBranchReraises ==
  /\ Propagate("ExtractionError")
  /\ UNCHANGED <<ext, errors, text, failed>>

\* The except branch: st.error(...), return "".
ExceptBranch ==
  /\ errors' = Append(errors, ExtractError)
  /\ text' = <<>>
  /\ failed' = TRUE
  /\ pc' = "segment"
  /\ UNCHANGED <<ext, files, exc>>

\* "if text": the strip() forgotten.
HasDirectTextNoStrip(t) == t # <<>>

\* if text and text.strip()
HasDirectText(t) == t # <<>> /\ ~IsBlank(t)

\* text = page.extract_text(): returned as it is when it has content,
\* otherwise the OCR fallback starts.
DirectText ==
  /\ pc = "extract"
  /\ \E t \in Texts :
       IF HasDirectText(t)
       THEN /\ text' = t
            /\ pc' = "segment"
            /\ ext' = [ext EXCEPT !.direct = t]
       ELSE /\ text' = <<>>
            /\ pc' = "write_temp"
            /\ ext' = [ext EXCEPT !.direct = t, !.fallback = TRUE]
  /\ UNCHANGED <<total_pages, page_num, failed, segVars, errors, files,
                 created, called, output_files, exc>>

\* page.extract_text() raises.
DirectTextFails ==
  /\ pc = "extract"
  /\ ExceptBranch
  /\ UNCHANGED <<total_pages, page_num, segVars, created, called, output_files>>

\* The page is written alone to temp_page.pdf.
WriteTempPdf ==
  /\ pc = "write_temp"
  /\ files' = WriteFile(files, temp_pdf_path, <<page_num>>)
  /\ created' = created \cup {temp_pdf_path}
  /\ pc' = "rasterize"
  /\ UNCHANGED <<ext, total_pages, page_num, text, failed, segVars, errors, called,
                 output_files, exc>>

\* Writing temp_page.pdf raises (inside the try block).
WriteTempFails ==
  /\ pc = "write_temp"
  /\ ExceptBranch
  /\ UNCHANGED <<total_pages, page_num, segVars, created, called, output_files>>

\* convert_from_path returns at least one image.
Rasterize ==
  /\ pc = "rasterize"
  /\ pc' = "ocr"
  /\ UNCHANGED <<ext, total_pages, page_num, text, failed, segVars, errors, files,
                 created, called, output_files, exc>>

\* convert_from_path returns no image: return "".
RasterizeNoImage ==
  /\ pc = "rasterize"
  /\ text' = <<>>
  /\ pc' = "segment"
  /\ UNCHANGED <<ext, total_pages, page_num, failed, segVars, errors, files,
                 created, called, output_files, exc>>

\* convert_from_path raises (poppler missing, page not renderable).
RasterizeFails ==
  /\ pc = "rasterize"
  /\ ExceptBranch
  /\ UNCHANGED <<total_pages, page_num, segVars, created, called, output_files>>

\* pytesseract.image_to_string(images[0]) returns the recognized text.
Ocr ==
  /\ pc = "ocr"
  /\ \E t \in Texts :
       /\ text' = t
       /\ ext' = [ext EXCEPT !.ocr = TRUE, !.recognized = t]
  /\ pc' = "segment"
  /\ UNCHANGED <<total_pages, page_num, failed, segVars, errors, files,
                 created, called, output_files, exc>>

\* pytesseract.image_to_string raises.
OcrFails ==
  /\ pc = "ocr"
  /\ ExceptBranch
  /\ UNCHANGED <<total_pages, page_num, segVars, created, called, output_files>>

(***************************************************************************)
(* find_fcr_ranges: the body of the loop after the extraction              *)
(***************************************************************************)

\* Index of key k in the dict d, 0 when absent.
KeyIndex(d, k) ==
  IF \E i \in 1..Len(d) : d[i].fcr = k
  THEN CHOOSE i \in 1..Len(d) : d[i].fcr = k
  ELSE 0

\* A dict whose assignment moves an existing key to the end.
DictSetMovesToEnd(d, k, s, e) ==
  Append(SelectSeq(d, LAMBDA x : x.fcr # k), [fcr |-> k, start |-> s, end |-> e])

\* fcr_ranges[k] = (s, e): a new key goes to the end, an existing key keeps
\* its place and gets the new value.
DictSet(d, k, s, e) ==
  LET i == KeyIndex(d, k)
      v == [fcr |-> k, start |-> s, end |-> e]
  IN IF i = 0 THEN Append(d, v) ELSE [d EXCEPT ![i] = v]

\* if not text: continue
SkipsPage(t) == t = <<>>

\* "if found_fcr": the comparison with the open identifier forgotten.
IsNewFcrAlways(found, cur) == found # None

\* if found_fcr and found_fcr != current_fcr
IsNewFcr(found, cur) == found # None /\ found # cur

\* fcr_ranges.setdefault(...): a key already present keeps its old range.
FinalizePreviousKeepsOld(d, cur, s, p) ==
  IF KeyIndex(d, cur) # 0 THEN d ELSE DictSet(d, cur, s, p - 1)

\* The previous range closed at the page of the new identifier.
FinalizePreviousAtPage(d, cur, s, p) == DictSet(d, cur, s, p)

\* fcr_ranges[current_fcr] = (start_page, page_num - 1)
FinalizePrevious(d, cur, s, p) == DictSet(d, cur, s, p - 1)

\* The last page taken to be page total_pages.
ClosesAtLastPageOffByOne(p, n, cur) == p = n /\ cur # None

\* if page_num == total_pages - 1 and current_fcr is not None
ClosesAtLastPage(p, n, cur) == p = n - 1 /\ cur # None

\* One pass of the loop body on the text of page p; st is the triple
\* (current_fcr, start_page, fcr_ranges) before, the result the triple after.
SegmentPage(st, p, n, t) ==
  IF SkipsPage(t) THEN st
  ELSE
    LET found == FindFcr(t)
        new == IsNewFcr(found, st.current_fcr)
        d1 == IF new /\ st.current_fcr # None
              THEN FinalizePrevious(st.fcr_ranges, st.current_fcr, st.start_page, p)
              ELSE st.fcr_ranges
        cur1 == IF new THEN found ELSE st.current_fcr
        s1 == IF new THEN p ELSE st.start_page
        d2 == IF ClosesAtLastPage(p, n, cur1)
              THEN DictSet(d1, cur1, s1, p)
              ELSE d1
    IN [current_fcr |-> cur1, start_page |-> s1, fcr_ranges |-> d2]

\* What page page_num yielded, for the history.
Observation ==
  [text |-> IF failed THEN "failed" ELSE IF text = <<>> THEN "empty" ELSE "text",
   found |-> IF SkipsPage(text) THEN None ELSE FindFcr(text)]

\* Lines 68-94 for the current page, then the next iteration.
Segment ==
  /\ pc = "segment"
  /\ LET st == SegmentPage([current_fcr |-> current_fcr, start_page |-> start_page,
                            fcr_ranges |-> fcr_ranges], page_num, total_pages, text)
     IN /\ current_fcr' = st.current_fcr
        /\ start_page' = st.start_page
        /\ fcr_ranges' = st.fcr_ranges
  /\ obs' = Append(obs, Observation)
  /\ page_num' = page_num + 1
  /\ pc' = "loop"
  /\ ext' = NoExtraction
  /\ UNCHANGED <<total_pages, text, failed, errors, files, created, called,
                 output_files, exc>>

(***************************************************************************)
(* split_pdf_by_fcr_ranges and create_zip                                  *)
(***************************************************************************)

\* The character class without its space.
SafeCharsNoSpace == Alnum \cup {"-", "_", "."}

\* [^\w\-_\. ] is every character outside this set
SafeChars == Alnum \cup {"-", "_", ".", " "}

\* re.sub(r'[^\w\-_\. ]', '_', str(fcr_num))
Sanitize(fcr) ==
  [i \in 1..Len(fcr) |-> IF fcr[i] \in SafeChars THEN fcr[i] ELSE "_"]

\* f"FCR_{clean_fcr_num}.pdf"
OutputName(fcr) == <<"FCR_">> \o Sanitize(fcr) \o <<".pdf">>

\* range(start, end): the end page left out.
RangePagesExclusive(s, e) == [i \in 1..(e - s) |-> s + i - 1]

\* The pages counted from 0 instead of from start.
RangePagesFromZero(s, e) == [i \in 1..(e - s + 1) |-> i - 1]

\* the pages added for range(start, end + 1)
RangePages(s, e) == [i \in 1..(e - s + 1) |-> s + i - 1]

RECURSIVE SplitUpTo(_, _, _)
\* The file system and output_files after the first n entries of the dict
\* have been written, starting from the file system fs.
SplitUpTo(d, n, fs) ==
  IF n = 0 THEN [files |-> fs, output_files |-> <<>>]
  ELSE LET prev == SplitUpTo(d, n - 1, fs)
           name == OutputName(d[n].fcr)
           path == PathJoin(temp_dir, name)
       IN [files |-> WriteFile(prev.files, path, RangePages(d[n].start, d[n].end)),
           output_files |-> Append(prev.output_files, [name |-> name, path |-> path])]

\* "if fcr_ranges is None": never true of a dict.
NoFcrFoundIsNone(d) == FALSE

\* if not fcr_ranges
NoFcrFound(d) == Len(d) = 0

\* main after find_fcr_ranges returned: report and return when the dict is
\* empty (leaving the with block), go on to the splitter otherwise.
CheckRanges ==
  /\ pc = "check"
  /\ IF NoFcrFound(fcr_ranges)
     THEN /\ errors' = Append(errors, NoFcrError)
          /\ files' = ExitTempDir(files)
          /\ pc' = "returned"
     ELSE /\ pc' = "split"
          /\ UNCHANGED <<errors, files>>
  /\ UNCHANGED <<ext, total_pages, page_num, text, failed, segVars, created, called,
                 output_files, exc>>

\* split_pdf_by_fcr_ranges runs to its end.
Split ==
  /\ pc = "split"
  /\ LET r == SplitUpTo(fcr_ranges, Len(fcr_ranges), files)
     IN /\ files' = r.files
        /\ output_files' = r.output_files
        /\ created' = created \cup {r.output_files[i].path : i \in 1..Len(r.output_files)}
  /\ called' = called \cup {"split_pdf_by_fcr_ranges"}
  /\ pc' = "zip"
  /\ UNCHANGED <<ext, total_pages, page_num, text, failed, segVars, errors, exc>>

\* Writing the k-th output raises an I/O error: the outputs before it are
\* on disk when the exception leaves the splitter and main.
SplitFails ==
  /\ pc = "split"
  /\ \E k \in 1..Len(fcr_ranges) :
       LET r == SplitUpTo(fcr_ranges, k - 1, files)
       IN /\ files' = ExitTempDir(r.files)
          /\ created' = created \cup {r.output_files[i].path : i \in 1..Len(r.output_files)}
  /\ called' = called \cup {"split_pdf_by_fcr_ranges"}
  /\ pc' = "unhandled"
  /\ exc' = "OSError"
  /\ UNCHANGED <<ext, total_pages, page_num, text, failed, segVars, errors,
                 output_files>>

\* create_zip: one entry per element of output_files, read from its path.
CreateZip ==
  /\ pc = "zip"
  /\ files' = WriteFile(files, zip_path,
                 [i \in 1..Len(output_files) |->
                     [arcname |-> output_files[i].name,
                      data |-> files[output_files[i].path]]])
  /\ created' = created \cup {zip_path}
  /\ called' = called \cup {"create_zip"}
  /\ pc' = "display"
  /\ UNCHANGED <<ext, total_pages, page_num, text, failed, segVars, errors,
                 output_files, exc>>

\* create_zip raises an I/O error: the partly written archive exists when
\* the exception leaves main.
CreateZipFails ==
  /\ pc = "zip"
  /\ files' = ExitTempDir(WriteFile(files, zip_path, <<>>))
  /\ created' = created \cup {zip_path}
  /\ called' = called \cup {"create_zip"}
  /\ pc' = "unhandled"
  /\ exc' = "OSError"
  /\ UNCHANGED <<ext, total_pages, page_num, text, failed, segVars, errors,
                 output_files>>

\* The results are shown and the with block is left normally.
Display ==
  /\ pc = "display"
  /\ files' = ExitTempDir(files)
  /\ pc' = "returned"
  /\ UNCHANGED <<ext, total_pages, page_num, text, failed, segVars, errors, created,
                 called, output_files, exc>>

Next ==
  \/ NoUpload
  \/ Upload
  \/ OpenPdf
  \/ OpenPdfFails
  \/ NextPage
  \/ PageReadFails
  \/ ReturnRanges
  \/ DirectText
  \/ DirectTextFails
  \/ WriteTempPdf
  \/ WriteTempFails
  \/ Rasterize
  \/ RasterizeNoImage
  \/ RasterizeFails
  \/ Ocr
  \/ OcrFails
  \/ Segment
  \/ CheckRanges
  \/ Split
  \/ SplitFails
  \/ CreateZip
  \/ CreateZipFails
  \/ Display

Spec == Init /\ [][Next]_vars

(***************************************************************************)
(* The document as the segmenter saw it, read off the history obs          *)
(***************************************************************************)

\* identifier page i yielded (None: no identifier)
Found(i) == obs[i + 1].found

\* pages processed so far that yielded an identifier
Detected == {i \in 0..(Len(obs) - 1) : Found(i) # None}

SetMin(S) == CHOOSE x \in S : \A y \in S : x <= y
SetMax(S) == CHOOSE x \in S : \A y \in S : x >= y

\* pages on which a range opens: a detection that differs from the
\* detection before it, or the first detection
RunStarts ==
  {i \in Detected :
     LET before == {j \in Detected : j < i}
     IN before = {} \/ Found(SetMax(before)) # Found(i)}

\* last page of the run that opens at s, in a document of total_pages pages
RunEnd(s) ==
  LET later == {r \in RunStarts : r > s}
  IN IF later = {} THEN total_pages - 1 ELSE SetMin(later) - 1

\* the run page p lies in (p is at or after the first detection)
RunOf(p) == SetMax({r \in RunStarts : r <= p})

\* find_fcr_ranges has returned to main
Segmented == pc \in {"check", "split", "zip", "display"}

HasKey(d, k) == KeyIndex(d, k) # 0
Lookup(d, k) == d[KeyIndex(d, k)]

\* pages inside some range of the dict
Covered(d) ==
  {p \in 0..(total_pages - 1) : \E i \in 1..Len(d) : d[i].start <= p /\ p <= d[i].end}

\* C1: once all pages are processed and at least one page yielded an
\* identifier, the returned dict maps the identifier opened last to
\* (its start page, total_pages - 1), whatever the last page yielded.
C1_LastRangeClosedAtFinalPage ==
  (pc = "check" /\ Detected # {}) =>
     LET s == SetMax(RunStarts)
     IN /\ HasKey(fcr_ranges, Found(s))
        /\ Lookup(fcr_ranges, Found(s)).start = s
        /\ Lookup(fcr_ranges, Found(s)).end = total_pages - 1

\* C2: in every dict of the pass, intermediate or returned, each range has
\* start <= end and the ranges of two distinct identifiers share no page.
C2_RangesOrderedAndDisjoint ==
  /\ \A i \in 1..Len(fcr_ranges) : fcr_ranges[i].start <= fcr_ranges[i].end
  /\ \A i, j \in 1..Len(fcr_ranges) :
       i # j => \/ fcr_ranges[i].end < fcr_ranges[j].start
                \/ fcr_ranges[j].end < fcr_ranges[i].start

\* C2 witness: a returned dict with three ranges, one of them of two pages.
C2_Witness ==
  /\ pc = "check"
  /\ Len(fcr_ranges) = 3
  /\ \E i \in 1..3 : fcr_ranges[i].start < fcr_ranges[i].end

\* C3 as stated: every page outside all ranges of the returned dict lies
\* strictly before the page of the first detection.
C3_UncoveredBeforeFirstDetection ==
  (pc = "check" /\ Detected # {}) =>
     \A p \in 0..(total_pages - 1) :
        p \notin Covered(fcr_ranges) => p < SetMin(Detected)

\* C3 amended: a page outside all ranges of the returned dict lies strictly
\* before the first detection, or in a run of an identifier that opens a
\* run again later, or in the last run of a document whose last page gave
\* the empty text.
C3_UncoveredPagesExplained ==
  (pc = "check" /\ Detected # {}) =>
     \A p \in 0..(total_pages - 1) :
        p \notin Covered(fcr_ranges) =>
           \/ p < SetMin(Detected)
           \/ \E r \in RunStarts : r > RunOf(p) /\ Found(r) = Found(RunOf(p))
           \/ /\ RunOf(p) = SetMax(RunStarts)
              /\ obs[total_pages].text # "text"

\* C3 witness: pages are uncovered for each of the three reasons.
C3_Witness ==
  /\ pc = "check"
  /\ Detected # {}
  /\ \E p \in 0..(total_pages - 1) :
        p \notin Covered(fcr_ranges) /\ p < SetMin(Detected)
  /\ \E p \in 0..(total_pages - 1) :
        /\ p \notin Covered(fcr_ranges) /\ p >= SetMin(Detected)
        /\ \E r \in RunStarts : r > RunOf(p) /\ Found(r) = Found(RunOf(p))

\* C3 witness of the other kind of uncovered page: the last run is never
\* closed because the last page gave the empty text.
C3_WitnessOpenEnd ==
  /\ pc = "check"
  /\ Detected # {}
  /\ obs[total_pages].text # "text"
  /\ SetMax(RunStarts) \notin Covered(fcr_ranges)

(***************************************************************************)
(* The outputs of the splitter, read back from the file system             *)
(***************************************************************************)

\* pages of the k-th element of output_files, as stored at its path
OutputPages(k) == files[output_files[k].path]

RECURSIVE ConcatOutputs(_)
\* pages of the outputs, concatenated in the order of the listed indices
ConcatOutputs(idx) ==
  IF idx = <<>> THEN <<>>
  ELSE OutputPages(Head(idx)) \o ConcatOutputs(Tail(idx))

RECURSIVE Ascending(_)
\* the elements of a set of integers as an increasing sequence
Ascending(S) ==
  IF S = {} THEN <<>> ELSE <<SetMin(S)>> \o Ascending(S \ {SetMin(S)})

RECURSIVE ByStart(_, _)
\* the indices I of the dict d, ordered by the start page of their ranges
ByStart(d, I) ==
  IF I = {} THEN <<>>
  ELSE LET m == CHOOSE i \in I :
                  \A j \in I : d[i].start < d[j].start
                               \/ (d[i].start = d[j].start /\ i <= j)
       IN <<m>> \o ByStart(d, I \ {m})

\* no page is stored in two of the returned outputs
NoPageInTwoOutputs ==
  \A i, j \in 1..Len(output_files) :
     i # j => \A a \in 1..Len(OutputPages(i)), b \in 1..Len(OutputPages(j)) :
                 OutputPages(i)[a] # OutputPages(j)[b]

\* no two identifiers of the dict get the same output name
NoNameCollision(d) ==
  \A i, j \in 1..Len(d) : i # j => OutputName(d[i].fcr) # OutputName(d[j].fcr)

\* C4 as stated: for every dict find_fcr_ranges produces, the pages of the
\* returned outputs, concatenated in the order returned, are exactly the
\* covered pages in original order, and no page is in two outputs.
C4_RoundTripInReturnedOrder ==
  pc = "zip" =>
     /\ ConcatOutputs([i \in 1..Len(output_files) |-> i])
          = Ascending(Covered(fcr_ranges))
     /\ NoPageInTwoOutputs

\* C4 amended: for every dict find_fcr_ranges produces in which no two
\* identifiers share a sanitized name, the pages of the returned outputs,
\* concatenated in ascending order of their ranges' start pages, are
\* exactly the covered pages in original order, and no page is in two
\* outputs.
C4_RoundTripByStartPage ==
  (pc = "zip" /\ NoNameCollision(fcr_ranges)) =>
     /\ ConcatOutputs(ByStart(fcr_ranges, 1..Len(fcr_ranges)))
          = Ascending(Covered(fcr_ranges))
     /\ NoPageInTwoOutputs

\* C4 witness: the splitter has run on a dict without name collision whose
\* iteration order is not the page order, one range having two pages.
C4_Witness ==
  /\ pc = "zip"
  /\ NoNameCollision(fcr_ranges)
  /\ Len(fcr_ranges) >= 2
  /\ fcr_ranges[1].start > fcr_ranges[2].start
  /\ \E i \in 1..Len(fcr_ranges) : fcr_ranges[i].start < fcr_ranges[i].end
  /\ Len(output_files) = Len(fcr_ranges)

(***************************************************************************)
(* main: the empty result, failures and the temporary directory            *)
(***************************************************************************)

Last(q) == q[Len(q)]

\* the loop of find_fcr_ranges has ended after the last page of an
\* uploaded document, and no page yielded an identifier
EndedWithoutIdentifier ==
  /\ input_pdf_path \in created
  /\ \/ pc \in {"check", "split", "zip", "display", "returned"}
     \/ pc = "unhandled" /\ exc = "OSError"
  /\ Detected = {}

\* C5: when no page yields an identifier, find_fcr_ranges returns the
\* empty dict, main reports "No FCR numbers found" and returns, neither
\* the splitter nor the archive builder runs, and no output or archive is
\* ever written.
C5_NoIdentifierReportedAndHalted ==
  EndedWithoutIdentifier =>
     /\ fcr_ranges = <<>>
     /\ pc \in {"check", "returned"}
     /\ called = {}
     /\ output_files = <<>>
     /\ created \subseteq {input_pdf_path, temp_pdf_path}
     /\ pc = "returned" => (errors # <<>> /\ Last(errors) = NoFcrError)

\* C5 witness: a document of several pages, one of them with text, none
\* with an identifier, has been reported and main has returned.
C5_Witness ==
  /\ EndedWithoutIdentifier
  /\ pc = "returned"
  /\ total_pages >= 2
  /\ \E i \in 1..Len(obs) : obs[i].text = "text"
  /\ Last(errors) = NoFcrError

ExtractPcs == {"extract", "write_temp", "rasterize", "ocr"}

\* C6: a failure inside extract_text_from_page is caught there: it adds
\* one message to the error channel and the page's text is the empty
\* string; no step of the extraction leaves find_fcr_ranges, the loop goes
\* on to the next page after a failed one, and it ends only when every
\* page has been processed.
C6_ExtractionFailureAbsorbed ==
  [][ /\ pc \in ExtractPcs => (pc' \in ExtractPcs \cup {"segment"} /\ exc' = "")
      /\ (pc \in ExtractPcs /\ failed') =>
            /\ errors' = Append(errors, ExtractError)
            /\ text' = <<>>
            /\ pc' = "segment"
      /\ (pc = "segment" /\ failed) =>
            (pc' = "loop" /\ page_num' = page_num + 1 /\ Len(obs') = page_num')
      /\ (pc = "loop" /\ pc' = "check") => Len(obs) = total_pages
    ]_vars

\* C6 witness: the extraction of a page failed, a later page yielded an
\* identifier, and find_fcr_ranges returned after the last page.
C6_Witness ==
  /\ pc = "check"
  /\ Len(obs) = total_pages
  /\ \E i, j \in 1..Len(obs) :
        i < j /\ obs[i].text = "failed" /\ obs[j].found # None
  /\ ExtractError \in {errors[i] : i \in 1..Len(errors)}

\* C7: a corrupt or unreadable document ends the run in a reported error
\* state: the parser's exception never leaves main unhandled.
C7_ParserFailureNotPropagated ==
  ~(pc = "unhandled" /\ exc = "PdfReadError")

\* the invocation of main has ended, by return or by an exception
Ended == pc \in {"returned", "unhandled"}

\* C8: when the invocation ends, on whatever path, none of the files it
\* created exists any more.
C8_AllFilesDeletedOnExit ==
  Ended => (DOMAIN files = {} /\ created \cap DOMAIN files = {})

\* C8 witness: a run that wrote the source copy, a page temporary, outputs
\* and the archive has ended by an exception.
C8_Witness ==
  /\ pc = "unhandled"
  /\ exc = "OSError"
  /\ {input_pdf_path, temp_pdf_path, zip_path} \subseteq created
  /\ Cardinality(created) >= 5
  /\ DOMAIN files = {}

\* C8 witness of the early return: the run reported "No FCR numbers found"
\* after writing the source copy and a page temporary.
C8_WitnessEarlyReturn ==
  /\ pc = "returned"
  /\ errors # <<>> /\ Last(errors) = NoFcrError
  /\ created = {input_pdf_path, temp_pdf_path}
  /\ DOMAIN files = {}

\* identifiers that open more than one run
Reappearing == {Found(r) : r \in {q \in RunStarts :
                   \E q2 \in RunStarts : q2 # q /\ Found(q2) = Found(q)}}

\* start page of the last run of identifier k
LastRunOf(k) == SetMax({r \in RunStarts : Found(r) = k})

\* C9: an identifier that re-appears after another one is recorded, in the
\* returned dict, with the range of its last contiguous run.
C9_ReappearanceLastRunWins ==
  pc = "check" =>
     \A k \in Reappearing :
        /\ HasKey(fcr_ranges, k)
        /\ Lookup(fcr_ranges, k).start = LastRunOf(k)
        /\ Lookup(fcr_ranges, k).end = RunEnd(LastRunOf(k))

\* first page on which identifier k was detected
FirstAppearance(k) == SetMin({p \in Detected : Found(p) = k})

\* C10: the keys of the dict are in the order in which the identifiers
\* first appear in the document, also after a range was overwritten.
C10_KeysInFirstAppearanceOrder ==
  \A i, j \in 1..Len(fcr_ranges) :
     i < j => FirstAppearance(fcr_ranges[i].fcr) < FirstAppearance(fcr_ranges[j].fcr)

\* C10 witness: the returned dict has three keys and the range of its
\* first key was overwritten by a re-appearance after the other two.
C10_Witness ==
  /\ pc = "check"
  /\ Len(fcr_ranges) = 3
  /\ fcr_ranges[1].fcr \in Reappearing
  /\ fcr_ranges[1].start > fcr_ranges[2].start
  /\ fcr_ranges[1].start > fcr_ranges[3].start

(***************************************************************************)
(* The splitter, entry by entry                                            *)
(***************************************************************************)

\* q is the sequence of the pages s, s+1, ..., e
IsRange(q, s, e) ==
  /\ Len(q) = e - s + 1
  /\ \A a \in 1..Len(q) : q[a] = s + a - 1

\* C11: split_pdf_by_fcr_ranges returns one (name, path) entry per entry of
\* the dict, in the dict's order; the output written for entry
\* (id, (start, end)) holds exactly the pages start..end in ascending
\* order (and still does when the splitter returns, unless a later entry
\* was written to the same name); the source document is not changed.
C11_OneOutputPerEntryWithItsPages ==
  [][ (pc = "split" /\ pc' = "zip") =>
        /\ Len(output_files') = Len(fcr_ranges)
        /\ \A k \in 1..Len(fcr_ranges) :
             LET e == fcr_ranges[k]
                 path == output_files'[k].path
                 written == SplitUpTo(fcr_ranges, k, files).files[path]
             IN /\ output_files'[k].name = OutputName(e.fcr)
                /\ path = PathJoin(temp_dir, output_files'[k].name)
                /\ IsRange(written, e.start, e.end)
                /\ (\A j \in (k + 1)..Len(fcr_ranges) :
                       OutputName(fcr_ranges[j].fcr) # OutputName(e.fcr))
                     => IsRange(files'[path], e.start, e.end)
        /\ files'[input_pdf_path] = files[input_pdf_path]
        /\ fcr_ranges' = fcr_ranges
    ]_vars

\* C11 witness: the splitter has returned three entries for a dict of three
\* ranges, one of them of two pages and not starting at page 0.
C11_Witness ==
  /\ pc = "zip"
  /\ Len(fcr_ranges) = 3
  /\ Len(output_files) = 3
  /\ \E k \in 1..3 :
        /\ fcr_ranges[k].start > 0
        /\ fcr_ranges[k].start < fcr_ranges[k].end
        /\ IsRange(OutputPages(k), fcr_ranges[k].start, fcr_ranges[k].end)

(***************************************************************************)
(* The identifier matcher                                                  *)
(***************************************************************************)

\* positions of t at which pattern k matches
MatchPositions(t, k) == {i \in 1..Len(t) : MatchAt(t, i, k) # None}

\* patterns (1: receipt number, 2: FCR NO, 3: Arabic label) matching in t
MatchingPatterns(t) == {k \in 1..3 : MatchPositions(t, k) # {}}

\* the page just processed had a non-empty text, still held in text
PageMatched == pc \in {"loop", "check"} /\ obs # <<>> /\ Last(obs).text = "text"

\* C12: the identifier taken for a page text is the first match of the
\* earliest pattern, in the order receipt number / FCR NO / Arabic label,
\* that matches anywhere in the text, whatever later patterns would give;
\* when no pattern matches no identifier is observed.  An identifier that
\* is taken becomes the open one.
C12_FirstMatchOfEarliestPattern ==
  PageMatched =>
     IF MatchingPatterns(text) = {}
     THEN Last(obs).found = None
     ELSE LET k == SetMin(MatchingPatterns(text))
              id == MatchAt(text, SetMin(MatchPositions(text, k)), k)
          IN Last(obs).found = id /\ current_fcr = id

\* C12 witness: a text in which the second pattern matches at an earlier
\* position than the first and captures something else; the first
\* pattern's capture was taken.
C12_Witness ==
  /\ PageMatched
  /\ {1, 2} \subseteq MatchingPatterns(text)
  /\ SetMin(MatchPositions(text, 2)) < SetMin(MatchPositions(text, 1))
  /\ FirstMatch(text, 2) # FirstMatch(text, 1)
  /\ Last(obs).found = FirstMatch(text, 1)

\* C12 witness of the first match: the first pattern matches twice with
\* different captures and the capture at the earlier position was taken.
C12_WitnessFirstOfTwo ==
  /\ PageMatched
  /\ \E i, j \in MatchPositions(text, 1) :
        /\ i < j
        /\ MatchAt(text, i, 1) # MatchAt(text, j, 1)
        /\ Last(obs).found = MatchAt(text, i, 1)

(***************************************************************************)
(* The text extractor: direct text first, OCR as the fallback              *)
(***************************************************************************)

\* t is not empty after trimming white space
HasContent(t) == \E i \in 1..Len(t) : t[i] # " "

\* extract_text_from_page has returned for page_num without a failure
Extracted == pc = "segment" /\ ~failed

\* the part of C13 about a direct text with content, and about where the
\* fallback runs: such a text is returned as it is and neither the
\* rasterizer nor the recognizer is invoked; the fallback is entered only on
\* a direct text without content and works on a document made of the
\* current page alone.
DirectTextPolicy ==
  /\ pc \in {"write_temp", "rasterize", "ocr"} =>
        (ext.fallback /\ ~HasContent(ext.direct))
  /\ pc \in {"rasterize", "ocr"} => files[temp_pdf_path] = <<page_num>>
  /\ (Extracted /\ HasContent(ext.direct)) =>
        (text = ext.direct /\ ~ext.fallback /\ ~ext.ocr)
  /\ (Extracted /\ ~HasContent(ext.direct)) => ext.fallback

\* C13 as stated: a direct text with content is returned unchanged without
\* rasterization or OCR; on an absent, empty or white-space-only direct
\* text the fallback runs and the recognizer's output is returned.
C13_DirectElseRecognizerOutput ==
  /\ DirectTextPolicy
  /\ (Extracted /\ ~HasContent(ext.direct)) =>
        (ext.ocr /\ text = ext.recognized)

\* C13 amended: as stated, except that the recognizer's output is returned
\* when the rasterizer produced an image; when it produced none, the
\* recognizer is not invoked and the empty string is returned.
C13_DirectElseRecognizerOutputIfImage ==
  /\ DirectTextPolicy
  /\ (Extracted /\ ~HasContent(ext.direct)) =>
        IF ext.ocr THEN text = ext.recognized ELSE text = <<>>

\* C13 witness: a white-space-only direct text sent the page to the
\* recognizer, whose output, holding an identifier, was returned.
C13_Witness ==
  /\ Extracted
  /\ ext.direct # <<>> /\ ~HasContent(ext.direct)
  /\ ext.fallback /\ ext.ocr
  /\ text = ext.recognized
  /\ FindFcr(text) # None

\* C13 witness of the direct path: a direct text with content was returned
\* on a page after one that went through the recognizer.
C13_WitnessDirect ==
  /\ Extracted
  /\ HasContent(ext.direct)
  /\ text = ext.direct
  /\ temp_pdf_path \in DOMAIN files

\* C13 witness of the third outcome: no image, the empty string returned.
C13_WitnessNoImage ==
  /\ Extracted
  /\ ext.fallback /\ ~ext.ocr
  /\ text = <<>>

(***************************************************************************)
(* The transitions of the segmenter, page by page                          *)
(***************************************************************************)

\* keys of the dict
Keys(d) == {d[i].fcr : i \in 1..Len(d)}

\* the dicts d and d2 agree on every key outside K
SameExcept(d, d2, K) ==
  \A k \in (Keys(d) \cup Keys(d2)) \ K :
     /\ HasKey(d, k) /\ HasKey(d2, k)
     /\ Lookup(d, k).start = Lookup(d2, k).start
     /\ Lookup(d, k).end = Lookup(d2, k).end

\* the step processes a page whose text yields an identifier other than
\* the open one
NewIdentifierStep ==
  /\ pc = "segment" /\ pc' = "loop"
  /\ FindFcr(text) # None
  /\ FindFcr(text) # current_fcr

\* the open identifier c gets the range (s, p - 1)
ClosedAt(d2, c, s, p) ==
  /\ HasKey(d2, c)
  /\ Lookup(d2, c).start = s
  /\ Lookup(d2, c).end = p - 1

\* C14 as stated: a page p yielding an identifier other than the open one
\* c (opened at s) sets RangeMap[c] to (s, p-1) and changes no other key;
\* with no identifier open nothing is written; in both cases the new
\* identifier becomes the open one with start page p.
C14_NewIdentifierClosesAndOpens ==
  [][ NewIdentifierStep =>
        /\ current_fcr' = FindFcr(text)
        /\ start_page' = page_num
        /\ IF current_fcr # None
           THEN /\ ClosedAt(fcr_ranges', current_fcr, start_page, page_num)
                /\ SameExcept(fcr_ranges, fcr_ranges', {current_fcr})
           ELSE fcr_ranges' = fcr_ranges
    ]_vars

\* C14 amended: as stated for every page but the last; when p is the last
\* page the same happens and, in addition, RangeMap[new identifier] is set
\* to (p, p), no key other than these two being changed.
C14_NewIdentifierClosesAndOpensLastPageToo ==
  [][ NewIdentifierStep =>
        /\ current_fcr' = FindFcr(text)
        /\ start_page' = page_num
        /\ current_fcr # None =>
              ClosedAt(fcr_ranges', current_fcr, start_page, page_num)
        /\ IF page_num = total_pages - 1
           THEN /\ ClosedAt(fcr_ranges', FindFcr(text), page_num, page_num + 1)
                /\ SameExcept(fcr_ranges, fcr_ranges', {current_fcr, FindFcr(text)})
           ELSE SameExcept(fcr_ranges, fcr_ranges', {current_fcr})
    ]_vars

\* C14 witness: a page before the last yielded a new identifier while
\* another one was open: that one's range of two pages now ends on the
\* page before, and the new identifier is open from this page.
C14_Witness ==
  /\ pc = "loop"
  /\ page_num < total_pages
  /\ Len(obs) >= 3
  /\ Last(obs).found = current_fcr /\ current_fcr # None
  /\ start_page = page_num - 1
  /\ \E i \in 1..Len(fcr_ranges) :
        /\ fcr_ranges[i].fcr # current_fcr
        /\ fcr_ranges[i].end = page_num - 2
        /\ fcr_ranges[i].start = page_num - 3

\* C14 witness of the last page: the new identifier of the last page has
\* its one-page range next to the range closed for the previous one, which
\* replaced the range of an earlier run of that identifier.
C14_WitnessLastPage ==
  /\ pc = "check"
  /\ total_pages >= 2
  /\ Last(obs).found = current_fcr /\ current_fcr # None
  /\ start_page = total_pages - 1
  /\ ClosedAt(fcr_ranges, current_fcr, total_pages - 1, total_pages)
  /\ \E i \in 1..Len(fcr_ranges) :
        /\ fcr_ranges[i].end = total_pages - 2
        /\ fcr_ranges[i].fcr \in Reappearing
        /\ fcr_ranges[i].fcr # current_fcr

\* the step processes a page before the last whose text is empty, or holds
\* no identifier, or holds the identifier that is open
AbsorbedPageStep ==
  /\ pc = "segment" /\ pc' = "loop"
  /\ page_num < total_pages - 1
  /\ (FindFcr(text) = None \/ FindFcr(text) = current_fcr)

\* C15: a page before the last that yields no identifier, or the identifier
\* already open, leaves the open identifier, its start page and the
\* RangeMap as they were; the loop moves on to the next page.
C15_AbsorbedPageChangesNothing ==
  [][ AbsorbedPageStep =>
        /\ current_fcr' = current_fcr
        /\ start_page' = start_page
        /\ fcr_ranges' = fcr_ranges
        /\ page_num' = page_num + 1
    ]_vars

\* C15 witness: after an identifier was opened, a page without identifier
\* and then a page with the same identifier were processed, none of them
\* the last page; the range is still open from its first page and the
\* RangeMap still holds what it held.
C15_Witness ==
  /\ pc = "loop"
  /\ page_num < total_pages
  /\ Len(obs) >= 3
  /\ obs[Len(obs) - 1].found = None
  /\ Last(obs).found = current_fcr /\ current_fcr # None
  /\ start_page = page_num - 3
  /\ Found(start_page) = current_fcr
  /\ ~HasKey(fcr_ranges, current_fcr)

\* C15 witness of the leading gap: pages without identifier while none is
\* open, one of them with a failed extraction.
C15_WitnessLeadingGap ==
  /\ pc = "loop"
  /\ page_num < total_pages
  /\ Len(obs) >= 2
  /\ Detected = {}
  /\ \E i \in 1..Len(obs) : obs[i].text = "failed"
  /\ current_fcr = None /\ fcr_ranges = <<>>

(***************************************************************************)
(* Temporary files of one page                                             *)
(***************************************************************************)

\* C16: when find_fcr_ranges starts on page p+1, no temporary file made
\* during the extraction of page p exists any more (the rasterized image
\* stays in memory; the single-page document temp_page.pdf is the one
\* file the extraction writes).
C16_PageTemporariesReleased ==
  (pc = "extract" /\ page_num >= 1) =>
     ~(/\ temp_pdf_path \in DOMAIN files
       /\ files[temp_pdf_path] = <<page_num - 1>>)

(***************************************************************************)
(* The splitter on its own: output names for arbitrary identifiers         *)
(***************************************************************************)

\* Longest identifier drawn (the identifier of Scenario D is added).
MaxIdLen == 2

\* Characters of the identifiers handed to the splitter.
IdChars == {"A", "1", "/", "(", ")", "+", "_", "-", ".", " "}

\* "AB/12(3)"
ScenarioD == <<"A", "B", "/", "1", "2", "(", "3", ")">>

\* The identifier strings the dict given to the splitter may hold.
Identifiers ==
  UNION {[1..n -> IdChars] : n \in 1..MaxIdLen} \cup {ScenarioD}

\* split_pdf_by_fcr_ranges(pdf_path, fcr_ranges, output_dir) is called on a
\* one-page document with a dict of one entry, for any identifier string.
InitNames ==
  /\ pc = "split"
  /\ total_pages = 1
  /\ page_num = 1
  /\ text = <<>>
  /\ failed = FALSE
  /\ current_fcr = None
  /\ start_page = 0
  /\ \E id \in Identifiers :
        fcr_ranges = <<[fcr |-> id, start |-> 0, end |-> 0]>>
  /\ obs = <<>>
  /\ errors = <<>>
  /\ files = WriteFile(NoFiles, input_pdf_path, <<0>>)
  /\ created = {input_pdf_path}
  /\ called = {}
  /\ output_files = <<>>
  /\ exc = ""
  /\ ext = NoExtraction

NextNames ==
  \/ Split
  \/ SplitFails

SpecNames == InitNames /\ [][NextNames]_vars

\* \w for the characters in use: letters, digits and the underscore
WordChars == {"A", "B", "1", "2", "3", "_"}

\* C17: the output name of an identifier is "FCR_", then the identifier
\* with each character that is not a word character, hyphen, underscore,
\* period or space replaced by one underscore and every other character
\* kept in its place, then ".pdf"; "AB/12(3)" gives FCR_AB_12_3_.pdf.
C17_OutputNameSanitized ==
  pc = "zip" =>
     LET id == fcr_ranges[1].fcr
         name == output_files[1].name
     IN /\ Len(name) = Len(id) + 2
        /\ name[1] = "FCR_"
        /\ name[Len(name)] = ".pdf"
        /\ \A i \in 1..Len(id) :
              name[i + 1] = IF id[i] \in WordChars \cup {"-", "_", ".", " "}
                            THEN id[i] ELSE "_"
        /\ id = ScenarioD =>
              name = <<"FCR_", "A", "B", "_", "1", "2", "_", "3", "_", ".pdf">>
        /\ output_files[1].path \in DOMAIN files

\* C17 witness: the splitter has named the output of "AB/12(3)".
C17_Witness ==
  /\ pc = "zip"
  /\ fcr_ranges[1].fcr = ScenarioD
  /\ output_files[1].name = <<"FCR_", "A", "B", "_", "1", "2", "_", "3", "_", ".pdf">>

\* C17 witness of a kept character: an identifier made of a space and a
\* slash keeps the space and loses the slash.
C17_WitnessSpaceKept ==
  /\ pc = "zip"
  /\ fcr_ranges[1].fcr = <<" ", "/">>
  /\ output_files[1].name = <<"FCR_", " ", "_", ".pdf">>

(***************************************************************************)
(* Identifiers with the same output name                                   *)
(***************************************************************************)

\* entries of output_files that carry the same name as entry i
SameName(i) ==
  {j \in 1..Len(output_files) : output_files[j].name = output_files[i].name}

\* C18: when distinct identifiers of the dict get the same output name,
\* the splitter is not stopped by it (it can run to its end and lists
\* every entry), and the file under that name then holds the pages of the
\* entry that comes last, in the dict's order, among those with that name.
C18_LaterEntryOverwrites ==
  /\ (pc = "split" /\ ~NoNameCollision(fcr_ranges)) => ENABLED Split
  /\ pc = "zip" =>
        /\ Len(output_files) = Len(fcr_ranges)
        /\ \A i \in 1..Len(output_files) :
              LET last == fcr_ranges[SetMax(SameName(i))]
              IN /\ output_files[i].path \in DOMAIN files
                 /\ IsRange(OutputPages(i), last.start, last.end)

\* C18 witness: the splitter has run on a dict in which an earlier and a
\* later identifier have the same output name and different ranges; the
\* file holds the later range.
C18_Witness ==
  /\ pc = "zip"
  /\ \E i, j \in 1..Len(output_files) :
        /\ i < j
        /\ fcr_ranges[i].fcr # fcr_ranges[j].fcr
        /\ output_files[i].name = output_files[j].name
        /\ fcr_ranges[i].start # fcr_ranges[j].start
        /\ j = SetMax(SameName(i))
        /\ IsRange(OutputPages(i), fcr_ranges[j].start, fcr_ranges[j].end)

\* messages sent to the error channel so far
Reported == {errors[i] : i \in 1..Len(errors)}

\* C19: when at least one page yielded an identifier, find_fcr_ranges
\* returns a dict that is not empty, and main never reports "No FCR
\* numbers found" for that document.
C19_DetectionGivesNonEmptyRangeMap ==
  Detected # {} =>
     /\ pc = "check" => fcr_ranges # <<>>
     /\ NoFcrError \notin Reported

====
